---- MODULE Spec2Model ----
(***************************************************************************)
(* Weekly budget agent: BudgetAgent (src/agents/budget_agents.py) over the *)
(* Redis-backed SessionStore (src/session_store.py).                       *)
(*                                                                         *)
(* Text is modelled after cleaning (budget_agents.py:70-72) as a sequence  *)
(* of whitespace-separated tokens.  A token is a word or a decimal literal *)
(* (comma-separated digit groups and two fractional digits).  Money is     *)
(* fixed-point: a Python float amount x is the integer 100*x (cents).      *)
(* Time is in seconds.  Redis keys are ':'-separated strings, modelled as  *)
(* the sequence of their segments.                                         *)
(*                                                                         *)
(* Words hold no digit, no comma and no keyword as a proper substring, so  *)
(* substring tests, the split on "summary" and the number regex act on     *)
(* whole tokens.                                                           *)
(*                                                                         *)
(* Spec and SpecKeys take one process_messages call as one step (requests  *)
(* that do not overlap; the clock does not advance inside a call).         *)
(* SpecTasks runs two requests at once, one step per await: each Redis     *)
(* command and the webhook POST.  The task id changes neither the store    *)
(* nor the response text and is left out.                                  *)
(***************************************************************************)
EXTENDS Integers, Sequences, FiniteSets, TLC

VARIABLES
    redis,        \* the Redis keyspace: key -> [val, exp]
    now,          \* wall clock, seconds (datetime.utcnow / Redis clock)
    ticks,        \* number of clock advances so far
    uuids,        \* number of uuid4() values drawn so far
    messages,     \* batch handed to the last process_messages call
    context_id,   \* context id the last call worked on (after the uuid default)
    user_id,      \* user id the last call resolved
    minted,       \* whether the last call minted a new user id
    response,     \* response of the last call
    loads,        \* load_user_data calls made by the last call
    lookups,      \* get_value calls made by the last call
    before,       \* the keyspace as the last call found it
    at,           \* clock value of the last call
    assigned,     \* context id -> the user id first stored for it
    tasks         \* requests in flight: task -> the locals of its process_messages

vars == <<redis, now, ticks, uuids, messages, context_id, user_id, minted,
          response, loads, lookups, before, at, assigned, tasks>>

-----------------------------------------------------------------------------
(* Bounds of the model *)

MaxTicks == 1
MaxUuids == 2
MaxTransactions == 2

-----------------------------------------------------------------------------
(* Tokens of cleaned text *)

W(s) == [num |-> FALSE, word |-> s, groups |-> <<>>, cents |-> 0]
\* decimal literal: digit groups separated by ',', then '.' and two digits
N(g, c) == [num |-> TRUE, word |-> "", groups |-> g, cents |-> c]

Texts ==
    { <<W("add"), W("expense"), N(<<1, 500>>, 0), W("rent")>>,
      <<W("add"), W("income"), N(<<2000>>, 50), W("salary")>>,
      <<W("add"), W("expense"), N(<<0>>, 50), W("gum")>>,
      <<W("add"), W("expense"), W("abc")>>,
      <<W("blah"), W("blah")>>,
      <<W("summary")>>,
      <<W("show"), W("summary")>>,
      <<W("add"), W("expense"), N(<<1, 500>>, 0), W("summary"),
        W("add"), W("income"), N(<<2000>>, 50)>>,
      <<W("add"), W("income"), W("add"), W("expense"), N(<<1, 500>>, 0)>>,
      <<W("add"), W("expense"), N(<<1, 500>>, 0), W("summary"), W("please")>> }

-----------------------------------------------------------------------------
(* Redis, as SessionStore uses it (decode_responses=True: values are str) *)

\* Python None / "" (both falsy) for ids; also the value of a missing key
None == <<>>

\* a string value is either json.dumps of a dict or a plain id string
StrVal(s) == [json |-> FALSE, transactions |-> <<>>, str |-> s]
NoVal == StrVal(None)

\* SET without ex: the key never expires
NoExpiry == -1

\* default ex of set_value, seconds
MappingTTL == 3600

\* redis.get(key): None for a missing key
RedisGet(r, key) == IF key \in DOMAIN r THEN r[key].val ELSE NoVal

\* redis.set(key, value, ex=ex) at clock t; a plain SET discards any TTL
RedisSet(r, key, value, ex, t) ==
    (key :> [val |-> value,
             exp |-> IF ex = NoExpiry THEN NoExpiry ELSE t + ex]) @@ r

\* keys whose TTL has run out at clock t are gone
Expire(r, t) ==
    [k \in {j \in DOMAIN r : r[j].exp = NoExpiry \/ r[j].exp > t} |-> r[k]]

\* f"user:{user_id}:transactions"
LedgerKey(uid) == <<"user">> \o uid \o <<"transactions">>

\* f"user:context:{context_id}"
ContextKey(cid) == <<"user", "context">> \o cid

\* json.dumps(data) for data = {"transactions": [...]}
json_dumps(txs) == [json |-> TRUE, transactions |-> txs, str |-> None]

\* json.loads(s) succeeds only on a JSON document
json_loads_ok(v) == v.json

\* `current` is falsy (None or ""): start from {"transactions": []}
Falsy(v) == ~v.json /\ v.str = None

\* data["transactions"] after `json.loads(current) if current else {...}`
LoadedTransactions(v) == IF Falsy(v) THEN <<>> ELSE v.transactions

\* SessionStore.append_transaction: read, append, write back (no TTL)
append_transaction(r, uid, tx, t) ==
    RedisSet(r, LedgerKey(uid),
             json_dumps(Append(LoadedTransactions(RedisGet(r, LedgerKey(uid))), tx)),
             NoExpiry, t)

\* append_transaction / load_user_data raise when the value is not JSON
LedgerReadable(r, uid) ==
    LET v == RedisGet(r, LedgerKey(uid)) IN Falsy(v) \/ json_loads_ok(v)

\* SessionStore.load_user_data(user_id)["transactions"]
load_user_data(r, uid) == LoadedTransactions(RedisGet(r, LedgerKey(uid)))

\* SessionStore.get_value
get_value(r, key) == RedisGet(r, key)

\* SessionStore.set_value with its default ex
set_value(r, key, value, t) == RedisSet(r, key, value, MappingTTL, t)

-----------------------------------------------------------------------------
(* Command parsing *)

\* text.replace(",", "") on a decimal literal: the digit groups run together
RECURSIVE JoinGroups(_)
JoinGroups(g) ==
    IF g = <<>> THEN 0
    ELSE JoinGroups(SubSeq(g, 1, Len(g) - 1)) * 1000 + g[Len(g)]

\* float(match.group(1)), in cents
ParseFloat(tok) == JoinGroups(tok.groups) * 100 + tok.cents

\* Python int(x) of a float x given in cents: truncation toward zero
PyInt(c) == IF c >= 0 THEN c \div 100 ELSE -((-c) \div 100)

\* Python float(n) of an int n, in cents
PyFloat(n) == n * 100

\* position of the first match of (\d+(?:\.\d+)?) in the text, 0 for no match
FirstNumber(text) ==
    IF \E i \in 1..Len(text) : text[i].num
    THEN CHOOSE i \in 1..Len(text) :
             text[i].num /\ \A j \in 1..(i - 1) : ~text[j].num
    ELSE 0

\* BudgetAgent._extract_number
_extract_number(text) ==
    IF FirstNumber(text) # 0 THEN PyInt(ParseFloat(text[FirstNumber(text)])) ELSE 0

\* `"a b" in cmd` for the two-word keyword "a b"
Contains2(cmd, a, b) ==
    \E i \in 1..(Len(cmd) - 1) : cmd[i] = W(a) /\ cmd[i + 1] = W(b)

\* `"a" in text` for a one-word keyword
Contains1(text, a) == \E i \in 1..Len(text) : text[i] = W(a)

\* user_text_clean.split("summary"), each piece stripped
RECURSIVE SplitSummary(_)
SplitSummary(text) ==
    IF ~Contains1(text, "summary") THEN <<text>>
    ELSE LET i == CHOOSE k \in 1..Len(text) :
                      text[k] = W("summary")
                      /\ \A j \in 1..(k - 1) : text[j] # W("summary")
         IN  <<SubSeq(text, 1, i - 1)>> \o SplitSummary(SubSeq(text, i + 1, Len(text)))

-----------------------------------------------------------------------------
(* Responses *)

Response(kind, amount, income, expense, balance) ==
    [kind |-> kind, amount |-> amount, income |-> income,
     expense |-> expense, balance |-> balance]

\* no call has been made yet
NoResponse == Response("none", 0, 0, 0, 0)

\* "I didn't understand that. Try: ..." with the three command forms
HelpText == Response("help", 0, 0, 0, 0)

\* f"Added expense of N{amount}" / f"Added income of N{amount}"
Added(type, amount) == Response(type, amount, 0, 0, 0)

\* "No transactions recorded this week yet."
NoneThisWeek == Response("none_this_week", 0, 0, 0, 0)

\* f"Weekly Summary -> Income N{int(income)}, Expenses N{int(expense)}, Balance N{int(balance)}"
WeeklySummary(income, expense, balance) ==
    Response("weekly_summary", 0, PyInt(income), PyInt(expense), PyInt(balance))

\* the call raised: the endpoint answers with a JSON-RPC internal error
Raised == Response("error", 0, 0, 0, 0)

-----------------------------------------------------------------------------
(* Ledger *)

\* timedelta(days=7), seconds
Week == 604800

\* seconds in a day of the ISO calendar
SecondsPerDay == 86400

\* datetime.isoformat(): the date (days since the epoch) and the time of day
isoformat(t) == [day |-> t \div SecondsPerDay, second |-> t % SecondsPerDay]

\* datetime.fromisoformat()
fromisoformat(d) == d.day * SecondsPerDay + d.second

\* the dict _add_transaction builds
Transaction(type, amount, t) ==
    [type |-> type, amount |-> PyFloat(amount), date |-> isoformat(t)]

\* BudgetAgent._add_transaction
_add_transaction(r, uid, type, amount, t) ==
    append_transaction(r, uid, Transaction(type, amount, t), t)

\* mutant of IsRecent: the lower bound of the window is inclusive
IsRecent_Inclusive(tx, t) == fromisoformat(tx.date) >= t - Week

\* datetime.fromisoformat(t["date"]) > week_ago
IsRecent(tx, t) == fromisoformat(tx.date) > t - Week

\* recent = [t for t in transactions if ...]
Recent(txs, t) == SelectSeq(txs, LAMBDA tx : IsRecent(tx, t))

\* mutant of SumOfType: the kind of the transaction is not looked at
RECURSIVE SumOfType_AnyType(_, _)
SumOfType_AnyType(txs, type) ==
    IF txs = <<>> THEN 0
    ELSE Head(txs).amount + SumOfType_AnyType(Tail(txs), type)

\* sum(t["amount"] for t in recent if t["type"] == type)
RECURSIVE SumOfType(_, _)
SumOfType(txs, type) ==
    IF txs = <<>> THEN 0
    ELSE (IF Head(txs).type = type THEN Head(txs).amount ELSE 0)
         + SumOfType(Tail(txs), type)

\* balance = income - expense
Balance(income, expense) == income - expense

\* BudgetAgent._generate_weekly_summary on the loaded transactions
_generate_weekly_summary(txs, t) ==
    LET recent  == Recent(txs, t)
        income  == SumOfType(recent, "income")
        expense == SumOfType(recent, "expense")
    IN  IF recent = <<>> THEN NoneThisWeek
        ELSE WeeklySummary(income, expense, Balance(income, expense))

-----------------------------------------------------------------------------
(* Identity resolution *)

\* str(uuid4()): the n-th value drawn, distinct from every other
Uuid4(n) == "uuid4-" \o ToString(n)

\* message.sender.id, else message.user.id, else None
ExplicitId(message) ==
    IF message.sender # None THEN message.sender
    ELSE IF message.user # None THEN message.user
    ELSE None

\* the str a stored value is read back as
AsString(v) == IF v.json THEN <<"{\"transactions\": [...]}">> ELSE v.str

\* mutant of _get_or_create_user_id: a stored mapping wins over an explicit id
_get_or_create_user_id_StoredFirst(r, cid, message, n, t) ==
    LET explicit == ExplicitId(message)
        stored   == get_value(r, ContextKey(cid))
        fresh    == <<"auto_user_" \o Uuid4(n + 1)>>
    IN  IF ~Falsy(stored)
        THEN [user_id |-> AsString(stored), redis |-> r, minted |-> FALSE, uuids |-> n,
              lookups |-> 1]
        ELSE IF explicit # None
        THEN [user_id |-> explicit, redis |-> r, minted |-> FALSE, uuids |-> n,
              lookups |-> 1]
        ELSE [user_id |-> fresh,
              redis   |-> set_value(r, ContextKey(cid), StrVal(fresh), t),
              minted  |-> TRUE, uuids |-> n + 1, lookups |-> 1]

\* BudgetAgent._get_or_create_user_id; n uuids were drawn before the call
_get_or_create_user_id(r, cid, message, n, t) ==
    LET explicit == ExplicitId(message)
        stored   == get_value(r, ContextKey(cid))
        fresh    == <<"auto_user_" \o Uuid4(n + 1)>>
    IN  IF explicit # None
        THEN [user_id |-> explicit, redis |-> r, minted |-> FALSE, uuids |-> n,
              lookups |-> 0]
        ELSE IF ~Falsy(stored)
        THEN [user_id |-> AsString(stored), redis |-> r, minted |-> FALSE, uuids |-> n,
              lookups |-> 1]
        ELSE [user_id |-> fresh,
              redis   |-> set_value(r, ContextKey(cid), StrVal(fresh), t),
              minted  |-> TRUE, uuids |-> n + 1, lookups |-> 1]

-----------------------------------------------------------------------------
(* process_messages *)

\* user_text_raw, cleaned: the text parts of the message joined by spaces
RECURSIVE UserText(_)
UserText(parts) ==
    IF parts = <<>> THEN <<>>
    ELSE (IF Head(parts).kind = "text" THEN Head(parts).text ELSE <<>>)
         \o UserText(Tail(parts))

\* mutant of AmountAccepted: a zero amount passes
AmountAccepted_OrZero(amount) == amount >= 0

\* `if amount > 0:` before either _add_transaction call
AmountAccepted(amount) == amount > 0

\* one `add` branch of the loop body
AddBranch(st, uid, type, cmd, t) ==
    LET amount == _extract_number(cmd)
    IN  IF ~AmountAccepted(amount) THEN st
        ELSE IF ~LedgerReadable(st.redis, uid)
        THEN [st EXCEPT !.response = Raised]
        ELSE [st EXCEPT !.redis = _add_transaction(st.redis, uid, type, amount, t),
                        !.response = Added(type, amount)]

\* mutant of SummaryBranch: the summary writes the in-window ledger back
SummaryBranch_Persists(st, uid, t) ==
    IF ~LedgerReadable(st.redis, uid)
    THEN [st EXCEPT !.response = Raised, !.loads = @ + 1]
    ELSE [st EXCEPT !.response = _generate_weekly_summary(load_user_data(st.redis, uid), t),
                    !.redis = RedisSet(st.redis, LedgerKey(uid),
                                       json_dumps(Recent(load_user_data(st.redis, uid), t)),
                                       NoExpiry, t),
                    !.loads = @ + 1]

\* the `elif cmd:` branch of the loop body
SummaryBranch(st, uid, t) ==
    IF ~LedgerReadable(st.redis, uid)
    THEN [st EXCEPT !.response = Raised, !.loads = @ + 1]
    ELSE [st EXCEPT !.response = _generate_weekly_summary(load_user_data(st.redis, uid), t),
                    !.loads = @ + 1]

\* body of `for cmd in commands:`
Command(st, uid, cmd, t) ==
    IF Contains2(cmd, "add", "expense") THEN AddBranch(st, uid, "expense", cmd, t)
    ELSE IF Contains2(cmd, "add", "income") THEN AddBranch(st, uid, "income", cmd, t)
    ELSE IF cmd # <<>> THEN SummaryBranch(st, uid, t)
    ELSE st

\* `for cmd in commands:`, left by an exception
RECURSIVE RunCommands(_, _, _, _)
RunCommands(commands, st, uid, t) ==
    IF commands = <<>> \/ st.response = Raised THEN st
    ELSE RunCommands(Tail(commands), Command(st, uid, Head(commands), t), uid, t)

\* what one call leaves behind
Outcome(ctx, id, st) ==
    [context_id |-> ctx, user_id |-> id.user_id, minted |-> id.minted,
     uuids |-> id.uuids, redis |-> st.redis, response |-> st.response,
     loads |-> st.loads, lookups |-> id.lookups]

\* process_messages after identity resolution: clean, split, run, respond
Respond(message, ctx, id, t) ==
    Outcome(ctx, id,
            RunCommands(SplitSummary(UserText(message.parts)),
                        [redis |-> id.redis, response |-> HelpText, loads |-> 0],
                        id.user_id, t))

\* mutant of Handle: the first message of the batch is the active one
Handle_FirstMessage(r, msgs, cid, n, t) ==
    LET ctx     == IF cid # None THEN cid ELSE <<Uuid4(n + 1)>>
        n1      == IF cid # None THEN n ELSE n + 1
        message == msgs[1]
    IN  Respond(message, ctx, _get_or_create_user_id(r, ctx, message, n1, t), t)

\* BudgetAgent.process_messages on a non-empty batch, from the keyspace r
Handle(r, msgs, cid, n, t) ==
    LET ctx     == IF cid # None THEN cid ELSE <<Uuid4(n + 1)>>
        n1      == IF cid # None THEN n ELSE n + 1
        message == msgs[Len(msgs)]
    IN  Respond(message, ctx, _get_or_create_user_id(r, ctx, message, n1, t), t)

\* mutant of process_messages: an empty batch is handled as a message
\* without sender and without parts
process_messages_NoCheck(r, msgs, cid, n, t) ==
    Handle(r, IF msgs = <<>> THEN <<[sender |-> None, user |-> None, parts |-> <<>>]>>
              ELSE msgs,
           cid, n, t)

\* BudgetAgent.process_messages: `if not messages: raise ValueError` comes
\* first, before the context id default and the identity resolution
process_messages(r, msgs, cid, n, t) ==
    IF msgs = <<>>
    THEN [context_id |-> cid, user_id |-> None, minted |-> FALSE, uuids |-> n,
          redis |-> r, response |-> Raised, loads |-> 0, lookups |-> 0]
    ELSE Handle(r, msgs, cid, n, t)

-----------------------------------------------------------------------------
(* Requests *)

TextPart(text) == [kind |-> "text", text |-> text]
DataPart == [kind |-> "data", text |-> <<>>]

Message(sender, user, parts) == [sender |-> sender, user |-> user, parts |-> parts]

\* a message with no explicit id, one text part
Anonymous(text) == Message(None, None, <<TextPart(text)>>)

ExpenseText == <<W("add"), W("expense"), N(<<1, 500>>, 0), W("rent")>>
IncomeText == <<W("add"), W("income"), N(<<2000>>, 50), W("salary")>>
SummaryText == <<W("show"), W("summary")>>

\* request: the batch and the contextId (None when the caller gives none)
Request(msgs, cid) == [messages |-> msgs, context_id |-> cid]

Requests ==
    { Request(<<Anonymous(text)>>, <<"ctx-1">>) : text \in Texts }
    \cup { Request(<<Message(<<"alice">>, None, <<TextPart(text)>>)>>, <<"ctx-1">>) :
               text \in {IncomeText, SummaryText} }
    \cup { Request(<<Message(None, <<"bob">>, <<TextPart(SummaryText)>>)>>, <<"ctx-1">>),
           Request(<<Message(None, None, <<DataPart>>)>>, <<"ctx-1">>),
           Request(<<Anonymous(SummaryText)>>, None),
           Request(<<Message(<<"alice">>, <<"bob">>, <<TextPart(SummaryText)>>)>>, None),
           Request(<<Message(<<"alice">>, None, <<TextPart(ExpenseText)>>),
                     Anonymous(SummaryText)>>, <<"ctx-1">>),
           Request(<<>>, <<"ctx-1">>) }

\* clock advances, seconds
TickSteps == { MappingTTL, Week }

-----------------------------------------------------------------------------
(* Requests in flight.  The endpoint and process_messages are coroutines:
   between two awaits a request runs alone, and at every await (each Redis
   command, the webhook POST) another request may run.  One step of a task
   is the completion of the call it awaits followed by its local code up to
   the next await. *)

\* the requests the event loop has in flight at once
Tasks == {"t1", "t2"}

\* a request with its configuration.pushNotificationConfig.url (or None)
TaskRequest(msgs, cid, url) == [messages |-> msgs, context_id |-> cid, url |-> url]

WebhookUrl == <<"https://hooks.example/budget">>

NoTransaction == [type |-> "none", amount |-> 0, date |-> isoformat(0)]

\* the locals of a process_messages call that has not started
IdleTask ==
    [pc |-> "idle", request |-> TaskRequest(<<>>, None, None), context_id |-> None,
     user_id |-> None, commands |-> <<>>, tx |-> NoTransaction, data |-> <<>>,
     response |-> NoResponse, result |-> NoResponse, post |-> "none"]

\* process_messages is left with a result; its locals are gone
Return(result, post) ==
    [IdleTask EXCEPT !.pc = "done", !.result = result, !.post = post]

\* lines 102-118: the result is built; with a webhook URL the POST is awaited
\* before `return result`
Finish(l) ==
    IF l.request.url # None
    THEN [l EXCEPT !.pc = "post"]
    ELSE Return(l.response, "none")

\* an exception leaves process_messages
Raise(l) == Return(Raised, "none")

\* `for cmd in commands:` from the next command up to the next await;
\* t is the clock datetime.utcnow() reads in _add_transaction
RECURSIVE NextCommand(_, _)
NextCommand(l, t) ==
    IF l.commands = <<>> THEN Finish(l)
    ELSE LET cmd    == Head(l.commands)
             rest   == [l EXCEPT !.commands = Tail(@)]
             type   == IF Contains2(cmd, "add", "expense") THEN "expense" ELSE "income"
             amount == _extract_number(cmd)
         IN  IF Contains2(cmd, "add", "expense") \/ Contains2(cmd, "add", "income")
             THEN IF AmountAccepted(amount)
                  THEN [rest EXCEPT !.pc = "append_get",
                                    !.tx = Transaction(type, amount, t)]
                  ELSE NextCommand(rest, t)
             ELSE IF cmd # <<>> THEN [rest EXCEPT !.pc = "load"]
             ELSE NextCommand(rest, t)

\* lines 63-77 once the user id is known, then into the loop
Parse(l, uid, t) ==
    NextCommand([l EXCEPT !.user_id = uid,
                          !.commands = SplitSummary(UserText(
                              l.request.messages[Len(l.request.messages)].parts)),
                          !.response = HelpText],
                t)

\* mutant of append_write: the document written holds the new transaction only
append_write_Replace(r, uid, data, tx, t) ==
    RedisSet(r, LedgerKey(uid), json_dumps(<<tx>>), NoExpiry, t)

\* append_transaction after its read: append to the data read, SET it
append_write(r, uid, data, tx, t) ==
    RedisSet(r, LedgerKey(uid), json_dumps(Append(data, tx)), NoExpiry, t)

\* mutant of send_webhook_notification: a failed POST is raised
send_webhook_notification_Raises(outcome) == outcome = "failed"

\* send_webhook_notification: does the call raise?  The POST is inside
\* try/except Exception, so never
send_webhook_notification(outcome) == FALSE

-----------------------------------------------------------------------------
(* State machine *)

\* transactions held under the keys ks of the keyspace r
RECURSIVE CountIn(_, _)
CountIn(r, ks) ==
    IF ks = {} THEN 0
    ELSE LET k == CHOOSE j \in ks : TRUE
         IN  Len(r[k].val.transactions) + CountIn(r, ks \ {k})

TransactionCount(r) == CountIn(r, DOMAIN r)

Init ==
    /\ redis = <<>>
    /\ now = 0
    /\ ticks = 0
    /\ uuids = 0
    /\ messages = <<>>
    /\ context_id = None
    /\ user_id = None
    /\ minted = FALSE
    /\ response = NoResponse
    /\ loads = 0
    /\ lookups = 0
    /\ before = <<>>
    /\ at = 0
    /\ assigned = <<>>
    /\ tasks = [i \in Tasks |-> IdleTask]

\* one process_messages call, start to return
ProcessMessages(msgs, cid) ==
    /\ messages' = msgs
    /\ before' = redis
    /\ at' = now
    /\ \E out \in {process_messages(redis, msgs, cid, uuids, now)} :
           /\ out.uuids <= MaxUuids
           /\ TransactionCount(out.redis) <= MaxTransactions
           /\ redis' = out.redis
           /\ uuids' = out.uuids
           /\ context_id' = out.context_id
           /\ user_id' = out.user_id
           /\ minted' = out.minted
           /\ response' = out.response
           /\ loads' = out.loads
           /\ lookups' = out.lookups
           /\ assigned' = IF out.minted /\ out.context_id \notin DOMAIN assigned
                          THEN (out.context_id :> out.user_id) @@ assigned
                          ELSE assigned
    /\ UNCHANGED <<now, ticks, tasks>>

\* time passes; Redis drops the keys whose TTL ran out
Tick(d) ==
    /\ ticks < MaxTicks
    /\ ticks' = ticks + 1
    /\ now' = now + d
    /\ redis' = Expire(redis, now + d)
    /\ UNCHANGED <<uuids, messages, context_id, user_id, minted, response,
                   loads, lookups, before, at, assigned, tasks>>

\* what a step of a task leaves alone
TaskFrame ==
    UNCHANGED <<now, ticks, messages, context_id, user_id, minted, response,
                loads, lookups, before, at, assigned>>

\* the endpoint calls process_messages: lines 54-60 up to the first await
StartTask(i, req) ==
    /\ tasks[i].pc \in {"idle", "done"}
    /\ LET l0      == [IdleTask EXCEPT !.request = req]
           ctx     == IF req.context_id # None THEN req.context_id
                      ELSE <<Uuid4(uuids + 1)>>
           message == req.messages[Len(req.messages)]
       IN  /\ uuids' = IF req.messages = <<>> \/ req.context_id # None
                       THEN uuids ELSE uuids + 1
           /\ uuids' <= MaxUuids
           /\ tasks' = [tasks EXCEPT ![i] =
                  IF req.messages = <<>> THEN Raise(l0)
                  ELSE IF ExplicitId(message) # None
                  THEN Parse([l0 EXCEPT !.context_id = ctx], ExplicitId(message), now)
                  ELSE [l0 EXCEPT !.context_id = ctx, !.pc = "get_value"]]
    /\ UNCHANGED redis
    /\ TaskFrame

\* `await self.store.get_value(...)` completes (line 40); a falsy value
\* mints the id and goes on to await set_value
GetValue(i) ==
    /\ tasks[i].pc = "get_value"
    /\ LET stored == get_value(redis, ContextKey(tasks[i].context_id))
       IN  IF ~Falsy(stored)
           THEN /\ tasks' = [tasks EXCEPT ![i] = Parse(tasks[i], AsString(stored), now)]
                /\ UNCHANGED uuids
           ELSE /\ uuids < MaxUuids
                /\ uuids' = uuids + 1
                /\ tasks' = [tasks EXCEPT ![i].pc = "set_value",
                                          ![i].user_id = <<"auto_user_" \o Uuid4(uuids + 1)>>]
    /\ UNCHANGED redis
    /\ TaskFrame

\* `await self.store.set_value(...)` completes (line 45)
SetValue(i) ==
    /\ tasks[i].pc = "set_value"
    /\ redis' = set_value(redis, ContextKey(tasks[i].context_id),
                          StrVal(tasks[i].user_id), now)
    /\ tasks' = [tasks EXCEPT ![i] = Parse(tasks[i], tasks[i].user_id, now)]
    /\ UNCHANGED uuids
    /\ TaskFrame

\* append_transaction: `await self.redis.get(key)` completes
\* (session_store.py:26-28)
AppendGet(i) ==
    /\ tasks[i].pc = "append_get"
    /\ tasks' = [tasks EXCEPT ![i] =
           IF ~LedgerReadable(redis, tasks[i].user_id) THEN Raise(tasks[i])
           ELSE [tasks[i] EXCEPT !.pc = "append_set",
                                 !.data = load_user_data(redis, tasks[i].user_id)]]
    /\ UNCHANGED <<redis, uuids>>
    /\ TaskFrame

\* append_transaction: `await self.redis.set(key, ...)` completes
\* (session_store.py:30); back in the loop the response text is set
AppendSet(i) ==
    /\ tasks[i].pc = "append_set"
    /\ redis' = append_write(redis, tasks[i].user_id, tasks[i].data, tasks[i].tx, now)
    /\ TransactionCount(redis') <= MaxTransactions
    /\ tasks' = [tasks EXCEPT ![i] =
           NextCommand([tasks[i] EXCEPT
                            !.response = Added(tasks[i].tx.type, PyInt(tasks[i].tx.amount)),
                            !.data = <<>>],
                       now)]
    /\ UNCHANGED uuids
    /\ TaskFrame

\* _generate_weekly_summary: `await self.store.load_user_data(...)` completes
Load(i) ==
    /\ tasks[i].pc = "load"
    /\ tasks' = [tasks EXCEPT ![i] =
           IF ~LedgerReadable(redis, tasks[i].user_id) THEN Raise(tasks[i])
           ELSE NextCommand(
                    [tasks[i] EXCEPT !.response =
                         _generate_weekly_summary(load_user_data(redis, tasks[i].user_id),
                                                  now)],
                    now)]
    /\ UNCHANGED <<redis, uuids>>
    /\ TaskFrame

\* `await self.send_webhook_notification(...)` completes (lines 110-116),
\* the POST having gone through or failed; then `return result`
Post(i, outcome) ==
    /\ tasks[i].pc = "post"
    /\ tasks' = [tasks EXCEPT ![i] =
           IF send_webhook_notification(outcome)
           THEN Return(Raised, outcome)
           ELSE Return(tasks[i].response, outcome)]
    /\ UNCHANGED <<redis, uuids>>
    /\ TaskFrame

Next ==
    \/ \E req \in Requests : ProcessMessages(req.messages, req.context_id)
    \/ \E d \in TickSteps : Tick(d)

Spec == Init /\ [][Next]_vars

-----------------------------------------------------------------------------
(* The last call, as the properties read it *)

\* the last call returned a completed result
Returned == response.kind \notin {"none", "error"}

\* messages[-1] and its cleaned text
Active == messages[Len(messages)]
Text == UserText(Active.parts)

\* the resolved user's ledger as the call found it and as it is now
LedgerBefore == load_user_data(before, user_id)
LedgerNow == load_user_data(redis, user_id)

\* transactions the call appended to the resolved user's ledger
Appended == SubSeq(LedgerNow, Len(LedgerBefore) + 1, Len(LedgerNow))

\* every ledger of the keyspace is as the call found it
LedgersUnchanged ==
    /\ \A k \in DOMAIN redis : redis[k].val.json => k \in DOMAIN before /\ before[k] = redis[k]
    /\ \A k \in DOMAIN before : before[k].val.json => k \in DOMAIN redis

HasExpenseKeyword == Contains2(Text, "add", "expense")
HasIncomeKeyword == Contains2(Text, "add", "income")
HasSummaryKeyword == Contains1(Text, "summary")

\* value, in cents, of the first numeric token of the text; 0 when there is none
FirstAmount == IF FirstNumber(Text) = 0 THEN 0 ELSE ParseFloat(Text[FirstNumber(Text)])

-----------------------------------------------------------------------------
(* C1: a message whose cleaned text contains "add expense" and whose first
   numeric token is N > 0 leaves the resolved user's ledger exactly one
   transaction longer, the new transaction being an expense of amount N, and
   the response confirms the amount N. *)
C1_AddExpenseAppendsN ==
    (Returned /\ HasExpenseKeyword /\ FirstAmount > 0) =>
        /\ Len(LedgerNow) = Len(LedgerBefore) + 1
        /\ SubSeq(LedgerNow, 1, Len(LedgerBefore)) = LedgerBefore
        /\ LedgerNow[Len(LedgerNow)].type = "expense"
        /\ LedgerNow[Len(LedgerNow)].amount = FirstAmount
        /\ response.kind = "expense"
        /\ PyFloat(response.amount) = FirstAmount

(* C2: a message with an add-command keyword but no extractable number, or a
   number that parses to 0, appends nothing and is answered by a response that
   is neither a success confirmation nor the help text. *)
C2_NoAmountIsSignalled ==
    (Returned /\ (HasExpenseKeyword \/ HasIncomeKeyword) /\ FirstAmount = 0) =>
        /\ LedgersUnchanged
        /\ response.kind \notin {"expense", "income"}
        /\ response # HelpText

(* C3: a message whose cleaned text holds none of the keywords "add expense",
   "add income", "summary" is answered by the help text, reads no ledger for
   a summary and leaves every ledger unchanged. *)
C3_UnknownGetsHelp ==
    (Returned /\ ~HasExpenseKeyword /\ ~HasIncomeKeyword /\ ~HasSummaryKeyword) =>
        /\ response = HelpText
        /\ loads = 0
        /\ LedgersUnchanged

(* C4: a message whose cleaned text contains "summary" and neither add
   keyword is answered by the weekly summary of the resolved user (report or
   no-transactions sentinel), never by the help text. *)
C4_SummaryGetsSummary ==
    (Returned /\ HasSummaryKeyword /\ ~HasExpenseKeyword /\ ~HasIncomeKeyword) =>
        response = _generate_weekly_summary(LedgerBefore, at)

\* the highest-priority keyword of the text: add expense > add income > summary
Intent ==
    IF HasExpenseKeyword THEN "expense"
    ELSE IF HasIncomeKeyword THEN "income"
    ELSE IF HasSummaryKeyword THEN "summary"
    ELSE "unknown"

\* the text holds more than one of the three keywords
SeveralKeywords ==
    \/ HasExpenseKeyword /\ HasIncomeKeyword
    \/ HasExpenseKeyword /\ HasSummaryKeyword
    \/ HasIncomeKeyword /\ HasSummaryKeyword

(* C5: for a message holding several keywords only the action of the
   highest-priority keyword present is carried out: the call appends at most
   one transaction, of that intent's type, and the response is the one of
   that intent. *)
C5_FirstMatchWins ==
    (Returned /\ SeveralKeywords) =>
        /\ TransactionCount(redis) <= TransactionCount(before) + 1
        /\ \A i \in DOMAIN Appended : Appended[i].type = Intent
        /\ response.kind \in {"expense", "income"} => response.kind = Intent
        /\ response.kind \in {"none_this_week", "weekly_summary"} => Intent = "summary"

(* C6: the amount stored in an appended transaction is the decimal amount
   parsed from the text, fractional part included. *)
C6_StoredAmountKeepsFraction ==
    Returned =>
        \A i \in DOMAIN Appended :
            \E j \in DOMAIN Text : Text[j].num /\ Appended[i].amount = ParseFloat(Text[j])

(* C7: once a context->user mapping has been stored for a context id, every
   later message on that context without an explicit sender id resolves to
   that same user id, and no later call mints a new id for the context. *)
C7_ContextKeepsItsUser ==
    (Returned /\ ExplicitId(Active) = None) =>
        /\ context_id \in DOMAIN assigned
        /\ user_id = assigned[context_id]

\* transactions of the ledger dated strictly later than at - 7 days
InWindow(ledger) ==
    {i \in DOMAIN ledger : fromisoformat(ledger[i].date) > at - Week}

\* the response of the last call is what _generate_weekly_summary returned
Summarised == Returned /\ response.kind \in {"none_this_week", "weekly_summary"}

(* C8: the weekly summary is the "no transactions this week" sentinel if and
   only if the user's ledger holds no transaction dated strictly later than
   now - 7 days; otherwise it is the breakdown. *)
C8_SentinelIffWindowEmpty ==
    Summarised => (response = NoneThisWeek <=> InWindow(LedgerNow) = {})

\* C8 witness: a summary over a ledger whose transactions are all stale
C8_Witness ==
    /\ Summarised
    /\ LedgerNow # <<>>
    /\ InWindow(LedgerNow) = {}
    /\ \E i \in DOMAIN LedgerNow : fromisoformat(LedgerNow[i].date) = at - Week

\* sum of the amounts of the ledger's transactions at the positions in idx
RECURSIVE Total(_, _)
Total(ledger, idx) ==
    IF idx = {} THEN 0
    ELSE LET i == CHOOSE j \in idx : TRUE
         IN  ledger[i].amount + Total(ledger, idx \ {i})

\* positions of the in-window transactions of one kind
InWindowOfType(ledger, type) == {i \in InWindow(ledger) : ledger[i].type = type}

(* C9: the weekly summary's income and expense totals are the sums of the
   amounts of exactly the in-window transactions of that kind, and the
   reported balance is the income total minus the expense total. *)
C9_TotalsAndBalance ==
    (Returned /\ response.kind = "weekly_summary") =>
        /\ PyFloat(response.income) = Total(LedgerNow, InWindowOfType(LedgerNow, "income"))
        /\ PyFloat(response.expense) = Total(LedgerNow, InWindowOfType(LedgerNow, "expense"))
        /\ response.balance = response.income - response.expense

\* C9 witness: a summary over a ledger with in-window income and expense
C9_Witness ==
    /\ Returned /\ response.kind = "weekly_summary"
    /\ response.income > 0 /\ response.expense > 0

(* C10: every transaction of every ledger in the store has an amount
   strictly greater than 0. *)
C10_AmountsPositive ==
    \A k \in DOMAIN redis :
        \A i \in DOMAIN redis[k].val.transactions :
            redis[k].val.transactions[i].amount > 0

\* C10 witness: an add command without a positive amount met a non-empty ledger
C10_Witness ==
    /\ Returned
    /\ HasExpenseKeyword \/ HasIncomeKeyword
    /\ _extract_number(Text) = 0
    /\ LedgerNow # <<>>

-----------------------------------------------------------------------------
\* the message is a summary-only command: no add keyword, and a summary was computed
SummaryOnly == Returned /\ ~HasExpenseKeyword /\ ~HasIncomeKeyword /\ loads > 0

(* C11: computing a weekly summary leaves the store unchanged: after a
   message handled as a summary-only command every user's persisted ledger
   is identical to what it was before the call (no ledger entry is created,
   removed or rewritten). *)
C11_SummaryLeavesLedgers ==
    SummaryOnly => LedgersUnchanged

\* C11 witness: a summary-only call reported on a ledger that holds a
\* transaction older than the window, and that ledger is still whole
C11_Witness ==
    /\ SummaryOnly
    /\ LedgerNow # <<>>
    /\ InWindow(LedgerNow) # DOMAIN LedgerNow

-----------------------------------------------------------------------------
\* the last call was handed an empty batch
EmptyBatch == messages = <<>> /\ response # NoResponse

(* C13: an empty message batch is rejected before any other step: the call
   raises (the endpoint answers with a JSON-RPC error, not a completed
   result) without reading or writing the store: no mapping is looked up, no
   ledger is loaded, no user id is minted, and the keyspace is what the call
   found. *)
C13_EmptyBatchRejected ==
    EmptyBatch =>
        /\ response = Raised
        /\ ~Returned
        /\ lookups = 0 /\ loads = 0
        /\ ~minted /\ user_id = None
        /\ LedgersUnchanged
        /\ at = now => redis = before

\* C13 witness: an empty batch met a keyspace with a ledger and no mapping
\* for its context, and nothing has happened since
C13_Witness ==
    /\ EmptyBatch
    /\ at = now
    /\ ContextKey(context_id) \notin DOMAIN redis
    /\ \E k \in DOMAIN redis : redis[k].val.json

-----------------------------------------------------------------------------
\* the last call got as far as resolving the identity of messages[-1]
Resolved == messages # <<>>

\* the mapping stored for the call's context, as the call found it
StoredBefore == get_value(before, ContextKey(context_id))

\* every entry of the keyspace that is not a ledger is as the call found it
MappingsUnchanged ==
    /\ \A k \in DOMAIN redis : ~redis[k].val.json => k \in DOMAIN before /\ before[k] = redis[k]
    /\ \A k \in DOMAIN before : ~before[k].val.json => k \in DOMAIN redis

(* C18: identity resolution follows explicit id > stored mapping > mint.
   With an explicit sender/user id on the active message the resolved id is
   that id whatever mapping is stored, and the mapping is neither read nor
   written.  Without one, a stored mapping is used as it is; an id is minted
   exactly when there is neither explicit id nor stored mapping, and it is
   then persisted under the context id. *)
C18_IdentityPriority ==
    Resolved =>
        /\ ExplicitId(Active) # None =>
               /\ user_id = ExplicitId(Active)
               /\ lookups = 0 /\ ~minted
               /\ at = now => MappingsUnchanged
        /\ (ExplicitId(Active) = None /\ ~Falsy(StoredBefore)) =>
               /\ user_id = AsString(StoredBefore)
               /\ lookups = 1 /\ ~minted
               /\ at = now => MappingsUnchanged
        /\ minted <=> (ExplicitId(Active) = None /\ Falsy(StoredBefore))
        /\ (minted /\ at = now) =>
               /\ lookups = 1
               /\ get_value(redis, ContextKey(context_id)) = StrVal(user_id)
               /\ \A k \in DOMAIN before : k \in DOMAIN redis

\* C18 witness: an explicit id on a context whose stored mapping names
\* another user
C18_Witness ==
    /\ Resolved
    /\ ExplicitId(Active) # None
    /\ at = now
    /\ ~Falsy(StoredBefore)
    /\ AsString(StoredBefore) # user_id

-----------------------------------------------------------------------------
\* the last call was handed a batch of several messages
Batch == Len(messages) > 1

\* the same call, from the same keyspace, clock and uuid stream, on a batch
\* holding only the last message
LastMessageAlone ==
    process_messages(before, <<Active>>, context_id,
                     IF minted THEN uuids - 1 ELSE uuids, at)

(* C19: only the last message of a batch is processed: the response, the
   resolved identity and the keyspace the call leaves are those of the same
   call on a batch holding only the last message, so a command in an earlier
   message appends nothing. *)
C19_OnlyLastMessage ==
    Batch =>
        /\ response = LastMessageAlone.response
        /\ user_id = LastMessageAlone.user_id
        /\ minted = LastMessageAlone.minted
        /\ at = now => redis = LastMessageAlone.redis

\* C19 witness: the earlier message carries an explicit id and an add
\* command, the last one is an anonymous summary request
C19_Witness ==
    /\ Batch /\ Returned /\ at = now
    /\ ExplicitId(messages[1]) # None
    /\ ExplicitId(Active) = None
    /\ Contains2(UserText(messages[1].parts), "add", "expense")
    /\ _extract_number(UserText(messages[1].parts)) > 0
    /\ load_user_data(redis, ExplicitId(messages[1]))
           = load_user_data(before, ExplicitId(messages[1]))

-----------------------------------------------------------------------------
(* Ids with ':' in them.  The keys are f-strings (session_store.py:25,35 and
   budget_agents.py:40,45), so an id is spliced into the key as it is: the id
   "context:X" contributes the segments "context" and "X". *)

\* sender id "context:X" and context id "X:transactions"
ColonSender == <<"context", "X">>
ColonContext == <<"X", "transactions">>

KeyRequests ==
    { Request(<<Message(ColonSender, None, <<TextPart(text)>>)>>, <<"ctx-1">>) :
          text \in {ExpenseText, SummaryText} }
    \cup { Request(<<Anonymous(text)>>, ColonContext) :
               text \in {ExpenseText, IncomeText, SummaryText} }
    \cup { Request(<<Message(<<"alice">>, None, <<TextPart(IncomeText)>>)>>, ColonContext) }

NextKeys ==
    \/ \E req \in KeyRequests : ProcessMessages(req.messages, req.context_id)
    \/ \E d \in TickSteps : Tick(d)

SpecKeys == Init /\ [][NextKeys]_vars

\* context ids and user ids the requests of SpecKeys can involve
KeyContexts == {req.context_id : req \in KeyRequests}

\* the entry under key k is as the last call found it
SameEntry(k) ==
    /\ k \in DOMAIN redis <=> k \in DOMAIN before
    /\ k \in DOMAIN redis => redis[k] = before[k]

(* C20: store entries are isolated per owner, for ids taken as arbitrary
   strings: the ledger key of the resolved user equals the mapping key of no
   context, the mapping read for the context is a user id some call stored
   for it (never a ledger), and a call changes no entry but the resolved
   user's ledger and the mapping of its own context; in particular it leaves
   the mapping of every other context as it found it. *)
C20_EntriesIsolated ==
    Resolved =>
        /\ \A c \in KeyContexts : LedgerKey(user_id) # ContextKey(c)
        /\ ~get_value(before, ContextKey(context_id)).json
        /\ at = now =>
               /\ \A k \in DOMAIN redis \cup DOMAIN before :
                      SameEntry(k) \/ k = LedgerKey(user_id) \/ k = ContextKey(context_id)
               /\ \A c \in KeyContexts \ {context_id} : SameEntry(ContextKey(c))

-----------------------------------------------------------------------------
(* Concurrent requests *)

TaskRequests ==
    { TaskRequest(<<Anonymous(ExpenseText)>>, <<"ctx-1">>, WebhookUrl),
      TaskRequest(<<Anonymous(SummaryText)>>, <<"ctx-1">>, None),
      TaskRequest(<<Message(<<"alice">>, None, <<TextPart(IncomeText)>>)>>,
                  <<"ctx-1">>, None) }

\* clock advances while requests are in flight, seconds
TaskTickSteps == { 1 }

POSTOutcomes == { "ok", "failed" }

NextTasks ==
    \/ \E i \in Tasks, req \in TaskRequests : StartTask(i, req)
    \/ \E i \in Tasks : GetValue(i)
    \/ \E i \in Tasks : SetValue(i)
    \/ \E i \in Tasks : AppendGet(i)
    \/ \E i \in Tasks : AppendSet(i)
    \/ \E i \in Tasks : Load(i)
    \/ \E i \in Tasks, outcome \in POSTOutcomes : Post(i, outcome)
    \/ \E d \in TaskTickSteps : Tick(d)

SpecTasks == Init /\ [][NextTasks]_vars

-----------------------------------------------------------------------------
\* the transactions persisted under key k of the keyspace r
Persisted(r, k) == r[k].val.transactions

\* the keys of the keyspace r that hold a ledger
Ledgers(r) == {k \in DOMAIN r : r[k].val.json}

IsPrefix(a, b) == Len(a) <= Len(b) /\ SubSeq(b, 1, Len(a)) = a

\* task i completes, in this step, the write of an append to the ledger k
WritesLedger(i, k) ==
    /\ tasks[i].pc = "append_set"
    /\ tasks'[i] # tasks[i]
    /\ LedgerKey(tasks[i].user_id) = k

(* C12: with a push-notification URL configured and the webhook POST
   failing, process_messages returns the completed result it would have
   returned with no URL configured, nothing is raised, and the store (with
   the ledger mutation already made) is left as it is. *)
C12_FailedPostIsSwallowed ==
    [][\A i \in Tasks :
          (tasks[i].pc = "post" /\ tasks'[i].pc = "done" /\ tasks'[i].post = "failed") =>
              /\ tasks'[i].result = tasks[i].response
              /\ tasks'[i].result = Finish([tasks[i] EXCEPT !.request.url = None]).result
              /\ tasks'[i].result.kind \notin {"none", "error"}
              /\ redis' = redis]_vars

\* C12 witness: a request whose POST failed returned its confirmation, and
\* the expense it added is in a ledger
C12_Witness ==
    \E i \in Tasks :
        /\ tasks[i].pc = "done" /\ tasks[i].post = "failed"
        /\ tasks[i].result = Added("expense", _extract_number(ExpenseText))
        /\ \E k \in Ledgers(redis) :
               \E n \in DOMAIN Persisted(redis, k) : Persisted(redis, k)[n].type = "expense"

(* C14 as stated: in every execution, concurrent requests for one user
   included, the ledger persisted at an earlier time is a prefix of the
   ledger persisted at any later time. *)
C14_LedgerOnlyGrows ==
    [][\A k \in Ledgers(redis) :
          /\ k \in Ledgers(redis')
          /\ IsPrefix(Persisted(redis, k), Persisted(redis', k))]_vars

(* C14, amended: every step leaves each persisted ledger a prefix of its
   new value, unless the step completes an append whose read of that ledger
   was followed by another write to it (overlapping appends of concurrent
   requests for one user: the last writer's snapshot wins).  An append whose
   read is still current adds exactly its transaction at the end; nothing
   else changes or removes a ledger. *)
C14_LedgerGrowsUnlessOverlapped ==
    [][\A k \in Ledgers(redis) :
          /\ k \in Ledgers(redis')
          /\ \/ Persisted(redis', k) = Persisted(redis, k)
             \/ \E i \in Tasks :
                    /\ WritesLedger(i, k)
                    /\ tasks[i].data = Persisted(redis, k) =>
                           Persisted(redis', k) = Append(Persisted(redis, k), tasks[i].tx)]_vars

\* C14 witness: two requests have both completed an append and one ledger
\* holds two transactions
C14_Witness ==
    /\ \A i \in Tasks : tasks[i].pc = "done" /\ tasks[i].result.kind \in {"expense", "income"}
    /\ \E k \in Ledgers(redis) : Len(Persisted(redis, k)) = 2

(* C15: the stored context->user mapping is never reassigned: no write sets
   a mapping key that holds user id u to a different user id, also when two
   requests without explicit id run concurrently on a context that has no
   mapping yet. *)
C15_MappingNeverReassigned ==
    [][\A k \in DOMAIN redis :
          (~redis[k].val.json /\ k \in DOMAIN redis') => redis'[k].val = redis[k].val]_vars

(* C16: in every persisted ledger insertion order is chronological order:
   the timestamps are non-decreasing by position, also when appends for one
   user interleave between taking the timestamp and the store's read and
   write. *)
C16_InsertionOrderChronological ==
    \A k \in Ledgers(redis) :
        \A m, n \in DOMAIN Persisted(redis, k) :
            m < n => fromisoformat(Persisted(redis, k)[m].date)
                         <= fromisoformat(Persisted(redis, k)[n].date)

(* C17: the webhook is fire-and-forget: with a URL configured
   process_messages returns its result without waiting for the POST, so
   whenever a request's POST is pending its result has been returned
   (responded, then notified). *)
C17_RespondedBeforeNotified ==
    \A i \in Tasks : tasks[i].pc = "post" => tasks[i].result # NoResponse

====
